---- MODULE Spec2Model ----
(***************************************************************************)
(* A model of py-bitable's request layer:                                  *)
(*   - HttpClient (src/py_bitable/http_client.py): the rate-limited        *)
(*     methods limited_get / limited_post, the thread pool behind          *)
(*     concurrent_get / concurrent_post, and the singleton decorator;      *)
(*   - retry_on_exception, BitableApiClient.upload_file and the domain     *)
(*     operations of BitableApiClient (src/py_bitable/client.py);          *)
(*   - Bitable: the schema cache, create_record and                        *)
(*     upload_and_create_record (src/py_bitable/bitable.py).               *)
(*                                                                         *)
(* Time is discrete: one second is TicksPerSec ticks.  The rate limiter    *)
(* keeps the time elapsed since its last reset instead of the absolute     *)
(* clock value (the code only ever uses the difference clock() -           *)
(* last_reset), saturated at one period.                                   *)
(***************************************************************************)
EXTENDS Integers, Sequences, FiniteSets, TLC

\* ------------------------------------------------------------------ bounds
TicksPerSec == 2      \* resolution of the clock: ticks in one second
MaxQps      == 2      \* largest qps_limit given to the constructor
MaxWorkers  == 2      \* largest max_workers given to the constructor
MaxBatch    == 2      \* largest batch given to concurrent_get / _post

\* ----------------------------------------------------------------- helpers
Min(a, b) == IF a < b THEN a ELSE b
Max(a, b) == IF a > b THEN a ELSE b

RECURSIVE SumTo(_, _)
SumTo(f, n) == IF n < 0 THEN 0 ELSE f[n] + SumTo(f, n - 1)

\* ------------------------------------------------------------ HTTP client
Methods == {"GET", "POST"}

\* What the network does with one request that was sent.
\*   "json"      2xx with a JSON body        -> the decoded body
\*   "empty"     2xx with empty content      -> {}
\*   "status"    non-2xx, raise_for_status() -> HTTPStatusError
\*   "transport" client.get/post raises      -> TransportError
Outcomes == {"json", "empty", "status", "transport"}

NoResult  == 0        \* Python None in the result position
EmptyDict == -1       \* Python {}
NoError   == "None"   \* Python None in the error position

\* _get_request / _post_request: the value returned for request id `rid`
\* (a JSON body is modelled by the id of the request it answers).
RequestResult(rid, outcome) ==
    CASE outcome = "json"  -> rid
      [] outcome = "empty" -> EmptyDict
      [] OTHER             -> NoResult

\* _get_request / _post_request: the exception raised, if any.
RequestError(outcome) ==
    CASE outcome = "status"    -> "HTTPStatusError"
      [] outcome = "transport" -> "TransportError"
      [] OTHER                 -> NoError

VARIABLES
    qps_limit,     \* HttpClient.qps_limit
    max_workers,   \* HttpClient.max_workers
    limiter,       \* the one limits(...) object: [num_calls, elapsed]
    urls,          \* the batch passed to concurrent_get / concurrent_post
    bmethod,       \* "GET" for concurrent_get, "POST" for concurrent_post
    futures,       \* the local list `futures`, in submission order
    queue,         \* work queue of the ThreadPoolExecutor (future indices)
    results,       \* the local list `results`
    bpc,           \* position of the batch caller
    thr,           \* per thread: [pc, task, m, sleepLeft, ret, err]
    recent,        \* recent[a]: requests sent to the network a ticks ago
    winSent,       \* requests sent since the limiter's last reset
    reordered,     \* a batch request completed before an earlier one
    delayed        \* a batch request had to sleep for the rate limit

hvars == <<qps_limit, max_workers, limiter, urls, bmethod, futures, queue,
           results, bpc, thr, recent, winSent, reordered, delayed>>

\* retry_on_exception: the state of one call of the wrapper
VARIABLES
    r_excs,        \* decorator argument `exceptions` (class names)
    r_max,         \* decorator argument `max_retries`
    r_delay,       \* decorator argument `delay`
    retries,       \* the local `retries`
    rpc,           \* position in the wrapper
    rexc,          \* the exception being handled or raised: [cls, at]
    rret,          \* the value the wrapper returned
    attempts,      \* calls of the wrapped function made by this call
    rwaits,        \* completed time.sleep(delay) calls of this call
    lastExc        \* the exception the latest attempt raised

rvars == <<r_excs, r_max, r_delay, retries, rpc, rexc, rret, attempts,
           rwaits, lastExc>>

\* BitableApiClient.upload_file: one execution
VARIABLES
    file_exists,   \* whether file_path names a file
    file_data,     \* the bytes of the file
    token,         \* BitableApiClient._tenant_access_token
    upc,           \* position in upload_file
    ucont,         \* the operation a token fetch was started for
    prep,          \* prepare_response: [upload_id, block_size, block_num]
    seqIdx,        \* iterations of `for seq in range(block_num)` completed
    sent,          \* every request sent to the server, in order
    acked,         \* upload_part responses with code 0: [upload_id, seq]
    uexc,          \* the exception upload_file raised
    file_token     \* the value upload_file returned

uvars == <<file_exists, file_data, token, upc, ucont, prep, seqIdx, sent,
           acked, uexc, file_token>>

\* BitableApiClient.__init__ and the @singleton decorator of HttpClient
VARIABLES
    instances,     \* singleton: the dict `instances` (0: HttpClient absent)
    objs,          \* the HttpClient objects constructed so far
    client_qps5,   \* BitableApiClient.client_qps5 (index into objs, 0: unset)
    client_qps100, \* BitableApiClient.client_qps100
    apc,           \* position in BitableApiClient.__init__
    via,           \* requests sent through each attribute in its window
    asleep         \* ticks a caller through each attribute still sleeps

avars == <<instances, objs, client_qps5, client_qps100, apc, via, asleep>>

\* Callers of the domain operations of one BitableApiClient
VARIABLES
    callers,       \* the threads that call operations of the client
    cst,           \* per caller: position, operation, locals, outcome
    writes         \* assignments made to _tenant_access_token

cvars == <<callers, cst, writes>>

\* The clock of a burst of requests through one HttpClient
VARIABLES
    now,           \* ticks since the first request of the burst was issued
    elapsed0       \* age of the limiter's window when the burst started

tvars == <<now, elapsed0>>

\* One Bitable object and the BitableApiClient calls it makes
VARIABLES
    schema,            \* the fields of the table, as the server lists them
    field_metadata,    \* Bitable._field_metadata
    field_name_to_id,  \* Bitable._field_name_to_id
    clientLog,         \* the calls made on Bitable.client, with outcomes
    bcall              \* the Bitable method called last: locals and outcome

bvars == <<schema, field_metadata, field_name_to_id, clientLog, bcall>>

\* upload_file called again on the same BitableApiClient
VARIABLES
    earlier,           \* the upload ids given to the earlier upload_file calls
    ctors              \* the HttpClient(...) calls made: arguments and result

xvars == <<earlier, ctors>>

vars == <<hvars, rvars, uvars, avars, cvars, tvars, bvars, xvars>>

\* The pool's threads, and one thread that calls limited_get / limited_post
\* itself, the way BitableApiClient does.
Workers == {<<"w", i>> : i \in 1..(MaxWorkers + 1)}
Direct  == <<"d", 1>>
Threads == Workers \cup {Direct}

\* Faulty variant: a pool that starts a thread for every submitted call
PoolUnbounded == Workers

\* Threads of the pool that exist for this instance.
PoolThreads == {<<"w", i>> : i \in 1..max_workers}

\* Faulty variant: an off-by-one limit
ClampedCallsOffByOne(q) == Max(1, q) + 1

\* ratelimit.limits(calls=qps_limit, period=1): clamped_calls.
ClampedCalls(q) == Max(1, q)

\* ratelimit.limits(...) wrapper body, run under the decorator's lock:
\* reset the counter when the period has elapsed, count the call, and admit
\* it unless the counter exceeds clamped_calls.
LimitsCall(lim, q) ==
    LET rem  == TicksPerSec - lim.elapsed
        base == IF rem <= 0 THEN [num_calls |-> 0, elapsed |-> 0] ELSE lim
        n    == base.num_calls + 1
    IN  [lim              |-> [base EXCEPT !.num_calls = n],
         reset            |-> rem <= 0,
         admitted         |-> n <= ClampedCalls(q),
         period_remaining |-> rem]

\* Faulty variant: limits(...) without sleep_and_retry: the exception propagates
RaiseOnLimit(admitted) == IF admitted THEN "send" ELSE "raise"

\* sleep_and_retry: what the calling thread does with the outcome of the
\* limits wrapper: call through, or sleep period_remaining and try again.
sleep_and_retry(admitted) == IF admitted THEN "send" ELSE "sleep"

IdleThread == [pc |-> "idle", task |-> 0, m |-> "GET", sleepLeft |-> 0,
               ret |-> NoResult, err |-> NoError]

NoExc == [cls |-> "None", at |-> 0]    \* no exception
NoPrep == [upload_id |-> 0, block_size |-> 0, block_num |-> 0]

\* No call of a retry_on_exception wrapper is in progress.
Attrs == {"client_qps5", "client_qps100"}

\* No BitableApiClient is being constructed.
ApiOff ==
    /\ instances = 0 /\ objs = <<>>
    /\ client_qps5 = 0 /\ client_qps100 = 0
    /\ apc = "off"
    /\ via = [a \in Attrs |-> 0]
    /\ asleep = [a \in Attrs |-> 0]

\* No caller uses the client.
ClientOff ==
    /\ callers = {} /\ cst = <<>> /\ writes = 0

\* No burst is being timed.
ClockOff ==
    /\ now = 0 /\ elapsed0 = 0

\* None, and a value that is not None.
PyNone == [some |-> FALSE, val |-> <<>>]
Some(v) == [some |-> TRUE, val |-> v]

\* No Bitable method was called yet; `left` calls are to come.
NoCall ==
    [method |-> "none", pc |-> "off", left |-> 0, arg |-> <<>>,
     exc |-> "None", ret |-> PyNone, base |-> 0, nfiles |-> 0, files |-> 0,
     attachments |-> <<>>, record_dict |-> <<>>]

\* No Bitable object is in use; upload_file was not called before.
BitableOff ==
    /\ earlier = <<>> /\ ctors = <<>>
    /\ schema = <<>>
    /\ field_metadata = PyNone /\ field_name_to_id = PyNone
    /\ clientLog = <<>> /\ bcall = NoCall

RetryOff ==
    /\ r_excs = {} /\ r_max = 0 /\ r_delay = 0 /\ retries = 0
    /\ rpc = "off" /\ rexc = NoExc /\ rret = 0 /\ attempts = 0
    /\ rwaits = 0 /\ lastExc = NoExc

\* No upload_file is in progress.
UploadOff ==
    /\ file_exists = FALSE /\ file_data = <<>> /\ token = 0
    /\ upc = "off" /\ ucont = "none" /\ prep = NoPrep /\ seqIdx = 0
    /\ sent = <<>> /\ acked = <<>> /\ uexc = NoExc /\ file_token = 0

\* The batch of n requests the caller passes: URLs may repeat.
BatchOf(n) == [i \in 1..n |-> IF i % 2 = 1 THEN "a" ELSE "b"]

\* State right after HttpClient(qps_limit=q, max_workers=k) returned and a
\* caller entered concurrent_get / concurrent_post with a batch.
Init ==
    /\ qps_limit \in 1..MaxQps
    /\ max_workers \in 1..MaxWorkers
    /\ limiter = [num_calls |-> 0, elapsed |-> 0]
    /\ urls \in {BatchOf(n) : n \in 0..MaxBatch}
    /\ bmethod \in Methods
    /\ futures = <<>> /\ queue = <<>> /\ results = <<>>
    /\ bpc = "submit"
    /\ thr = [t \in Threads |-> IdleThread]
    /\ recent = [a \in 0..(TicksPerSec - 1) |-> 0]
    /\ winSent = 0
    /\ reordered = FALSE
    /\ delayed = FALSE
    /\ RetryOff /\ UploadOff /\ ApiOff /\ ClientOff /\ ClockOff /\ BitableOff

\* concurrent_get / concurrent_post, first loop: executor.submit(...)
Submit ==
    /\ bpc = "submit"
    /\ Len(futures) < Len(urls)
    /\ LET i == Len(futures) + 1
       IN  /\ futures' = Append(futures,
                  [url |-> urls[i], state |-> "pending", result |-> NoResult,
                   exc |-> NoError, outcome |-> "none"])
           /\ queue' = Append(queue, i)
    /\ UNCHANGED <<qps_limit, max_workers, limiter, urls, bmethod, results,
                   bpc, thr, recent, winSent, reordered, delayed>>
    /\ UNCHANGED <<rvars, uvars, avars, cvars, tvars, bvars, xvars>>

\* concurrent_get / concurrent_post: the first loop ends.
SubmitDone ==
    /\ bpc = "submit"
    /\ Len(futures) = Len(urls)
    /\ bpc' = "collect"
    /\ UNCHANGED <<qps_limit, max_workers, limiter, urls, bmethod, futures,
                   queue, results, thr, recent, winSent, reordered, delayed>>
    /\ UNCHANGED <<rvars, uvars, avars, cvars, tvars, bvars, xvars>>

\* Faulty variant: collecting from the last future to the first
NextFutureReversed(nfut, nres) == nfut - nres

\* `for url, future in futures`: the future the second loop waits for next.
NextFuture(nfut, nres) == nres + 1

\* Faulty variant: `except httpx.HTTPStatusError`
CaughtStatusOnly(exc) == exc = "HTTPStatusError"

\* `except Exception as e`: the exceptions of a future the loop catches.
CaughtByExcept(exc) == TRUE

\* The tuple appended to `results` for a finished future.
ResultEntry(f) ==
    IF f.exc = NoError
    THEN [url |-> f.url, result |-> f.result, error |-> NoError]
    ELSE [url |-> f.url, result |-> NoResult, error |-> f.exc]

\* concurrent_get / concurrent_post, second loop: future.result()
Collect ==
    /\ bpc = "collect"
    /\ Len(results) < Len(futures)
    /\ LET i == NextFuture(Len(futures), Len(results))
           f == futures[i]
       IN  /\ f.state = "done"
           /\ IF f.exc = NoError \/ CaughtByExcept(f.exc)
              THEN results' = Append(results, ResultEntry(f)) /\ bpc' = bpc
              ELSE results' = results /\ bpc' = "raised"
    /\ UNCHANGED <<qps_limit, max_workers, limiter, urls, bmethod, futures,
                   queue, thr, recent, winSent, reordered, delayed>>
    /\ UNCHANGED <<rvars, uvars, avars, cvars, tvars, bvars, xvars>>

\* concurrent_get / concurrent_post: return results
Return ==
    /\ bpc = "collect"
    /\ Len(results) = Len(futures)
    /\ bpc' = "returned"
    /\ UNCHANGED <<qps_limit, max_workers, limiter, urls, bmethod, futures,
                   queue, results, thr, recent, winSent, reordered, delayed>>
    /\ UNCHANGED <<rvars, uvars, avars, cvars, tvars, bvars, xvars>>

\* ThreadPoolExecutor: a free worker takes the oldest submitted call (the
\* workers are interchangeable: the free one of least index takes it).
WorkerTake(w) ==
    /\ w \in PoolThreads
    /\ thr[w].pc = "idle"
    /\ \A v \in PoolThreads : v[2] < w[2] => thr[v].pc # "idle"
    /\ queue # <<>>
    /\ LET i == Head(queue)
       IN  /\ thr' = [thr EXCEPT ![w] = [IdleThread EXCEPT
                          !.pc = "check", !.task = i, !.m = bmethod]]
           /\ futures' = [futures EXCEPT ![i].state = "running"]
    /\ queue' = Tail(queue)
    /\ UNCHANGED <<qps_limit, max_workers, limiter, urls, bmethod, results,
                   bpc, recent, winSent, reordered, delayed>>
    /\ UNCHANGED <<rvars, uvars, avars, cvars, tvars, bvars, xvars>>

\* A thread of the application calls limited_post itself, the way the
\* operations of BitableApiClient do.
DirectCall ==
    /\ thr[Direct].pc = "idle"
    /\ thr' = [thr EXCEPT ![Direct] = [IdleThread EXCEPT
                   !.pc = "check", !.m = "POST"]]
    /\ UNCHANGED <<qps_limit, max_workers, limiter, urls, bmethod, futures,
                   queue, results, bpc, recent, winSent, reordered, delayed>>
    /\ UNCHANGED <<rvars, uvars, avars, cvars, tvars, bvars, xvars>>

\* Request id of the call thread t runs (a direct call has id 100).
Rid(t) == IF t = Direct THEN 100 ELSE thr[t].task

\* The call of thread t ends with a result or an exception: a pool thread
\* completes its future, a direct caller gets the value itself.
Finish(t, res, err, outcome) ==
    IF t = Direct
    THEN /\ thr' = [thr EXCEPT ![t] = [IdleThread EXCEPT
                        !.pc = "done", !.ret = res, !.err = err]]
         /\ UNCHANGED <<futures, reordered>>
    ELSE /\ thr' = [thr EXCEPT ![t] = IdleThread]
         /\ futures' = [futures EXCEPT ![thr[t].task] = [@ EXCEPT
                            !.state = "done", !.result = res, !.exc = err,
                            !.outcome = outcome]]
         /\ reordered' = (reordered \/ \E j \in 1..(thr[t].task - 1) :
                                          futures[j].state # "done")

\* limited_get / limited_post: the admission check of the limits wrapper,
\* under sleep_and_retry.
Admit(t) ==
    /\ thr[t].pc = "check"
    /\ LET r   == LimitsCall(limiter, qps_limit)
           nxt == sleep_and_retry(r.admitted)
           win == IF r.reset THEN 0 ELSE winSent
       IN  /\ limiter' = r.lim
           /\ CASE nxt = "send" ->
                    /\ thr' = [thr EXCEPT ![t].pc = "send"]
                    /\ recent' = [recent EXCEPT ![0] = @ + 1]
                    /\ winSent' = win + 1
                    /\ UNCHANGED <<futures, reordered, delayed>>
                [] nxt = "sleep" ->
                    /\ thr' = [thr EXCEPT ![t].pc = "sleep",
                                   ![t].sleepLeft = r.period_remaining]
                    /\ delayed' = (delayed \/ t # Direct)
                    /\ winSent' = win
                    /\ UNCHANGED <<recent, futures, reordered>>
                [] OTHER ->
                    /\ Finish(t, NoResult, "RateLimitException", "none")
                    /\ winSent' = win
                    /\ UNCHANGED <<recent, delayed>>
    /\ UNCHANGED <<qps_limit, max_workers, urls, bmethod, queue, results, bpc>>
    /\ UNCHANGED <<rvars, uvars, avars, cvars, tvars, bvars, xvars>>

\* sleep_and_retry: time.sleep(period_remaining) is over, call again.
Wake(t) ==
    /\ thr[t].pc = "sleep"
    /\ thr[t].sleepLeft = 0
    /\ thr' = [thr EXCEPT ![t].pc = "check"]
    /\ UNCHANGED <<qps_limit, max_workers, limiter, urls, bmethod, futures,
                   queue, results, bpc, recent, winSent, reordered, delayed>>
    /\ UNCHANGED <<rvars, uvars, avars, cvars, tvars, bvars, xvars>>

\* _get_request / _post_request: the response (or the failure) arrives.
Respond(t, outcome) ==
    /\ thr[t].pc = "send"
    /\ Finish(t, RequestResult(Rid(t), outcome), RequestError(outcome), outcome)
    /\ UNCHANGED <<qps_limit, max_workers, limiter, urls, bmethod, queue,
                   results, bpc, recent, winSent, delayed>>
    /\ UNCHANGED <<rvars, uvars, avars, cvars, tvars, bvars, xvars>>

\* One tick of the clock passes: what it does to the HttpClient and to
\* the threads that sleep.
ClockTick ==
    /\ limiter' = [limiter EXCEPT !.elapsed = Min(@ + 1, TicksPerSec)]
    /\ thr' = [t \in Threads |->
                  [thr[t] EXCEPT !.sleepLeft = Max(@ - 1, 0)]]
    /\ recent' = [a \in 0..(TicksPerSec - 1) |->
                     IF a = 0 THEN 0 ELSE recent[a - 1]]
    /\ UNCHANGED <<qps_limit, max_workers, urls, bmethod, futures, queue,
                   results, bpc, winSent, reordered, delayed>>
    /\ UNCHANGED <<rvars, uvars, avars, cvars, bvars, xvars>>

\* One tick of the clock passes.
Tick == ClockTick /\ UNCHANGED tvars

Next ==
    \/ Submit
    \/ SubmitDone
    \/ Collect
    \/ Return
    \/ \E w \in Workers : WorkerTake(w)
    \/ \E t \in Threads : Admit(t)
    \/ \E t \in Threads : Wake(t)
    \/ \E t \in Threads, o \in Outcomes : Respond(t, o)
    \/ Tick

Spec == Init /\ [][Next]_vars

\* A concurrent_get whose every request the server answers, with a success
\* or with an error status; the system never stops while a step is possible
\* (the clock, the threads, the server).
LiveInit == Init /\ bmethod = "GET"

LiveNext ==
    \/ Submit
    \/ SubmitDone
    \/ Collect
    \/ Return
    \/ \E w \in Workers : WorkerTake(w)
    \/ \E t \in Threads : Admit(t)
    \/ \E t \in Threads : Wake(t)
    \/ \E t \in Threads, o \in {"json", "status"} : Respond(t, o)
    \/ Tick

LiveSpec == LiveInit /\ [][LiveNext]_vars /\ WF_vars(LiveNext)

\* The same client with, besides the batch (a concurrent_get), one thread
\* that calls limited_post directly.  Only the timing and the number of the
\* requests matter here: a response is a success or a failure.
DirectInit == Init /\ bmethod = "GET"

DirectNext ==
    \/ Submit
    \/ SubmitDone
    \/ Collect
    \/ Return
    \/ DirectCall
    \/ \E w \in Workers : WorkerTake(w)
    \/ \E t \in Threads : Admit(t)
    \/ \E t \in Threads : Wake(t)
    \/ \E t \in Threads, o \in {"json", "transport"} : Respond(t, o)
    \/ Tick

DirectSpec == DirectInit /\ [][DirectNext]_vars

\* ------------------------------------------------------- HTTP client claims
InFlight(S) == Cardinality({t \in S : thr[t].pc = "send"})
Busy(S)     == Cardinality({t \in S : thr[t].pc # "idle"})
RecentSent  == SumTo(recent, TicksPerSec - 1)
Failed(o)   == o \in {"status", "transport"}

\* C1 (as claimed): in every rolling one-second interval at most qps_limit
\* requests, GET and POST together, are sent to the network.
C1_RollingWindow == RecentSent <= qps_limit

\* C1 (amended): in every window of the limiter, the second that starts at a
\* reset of its counter, at most qps_limit requests (GET and POST together)
\* are sent; a rolling one-second interval holds at most 2 * qps_limit.
C1_FixedWindow ==
    /\ winSent <= qps_limit
    /\ RecentSent <= 2 * qps_limit

\* C1 witness: the window is full with a GET of the batch and the direct
\* POST both sent, and another request sleeps until the window ends.
C1_Witness ==
    /\ winSent = qps_limit
    /\ thr[Direct].pc = "send" /\ thr[Direct].m = "POST"
    /\ \E w \in Workers : thr[w].pc = "send" /\ thr[w].m = "GET"
    /\ \E w \in Workers : thr[w].pc = "sleep"

\* C2 (as claimed): at most max_workers requests of the client are in flight,
\* the requests of direct callers of limited_post included.
C2_InFlightBound == InFlight(Threads) <= max_workers

\* C2 (amended): at most max_workers requests submitted through
\* concurrent_get / concurrent_post are being executed or in flight; a thread
\* that calls limited_post directly is not counted and adds its own request.
C2_PoolBound ==
    /\ Busy(Workers) <= max_workers
    /\ InFlight(Workers) <= max_workers
    /\ InFlight(Threads) <= max_workers + 1

\* C2 witness: every pool thread has a request in flight, a further request
\* of the batch waits in the queue, and the direct caller's is in flight too.
C2_Witness ==
    /\ InFlight(Workers) = max_workers
    /\ queue # <<>>
    /\ thr[Direct].pc = "send"

\* C4: the returned list has the length of the batch and its i-th entry
\* carries the i-th url and the response (or error) of the i-th request.
C4_OrderPreserved ==
    bpc = "returned" =>
        /\ Len(results) = Len(urls)
        /\ \A i \in 1..Len(urls) :
              /\ results[i].url = urls[i]
              /\ results[i].result = RequestResult(i, futures[i].outcome)
              /\ results[i].error = RequestError(futures[i].outcome)

\* C4 witness: a batch returned whose requests completed out of order.
C4_Witness == bpc = "returned" /\ Len(urls) >= 2 /\ reordered

\* C5: the batch call never raises; when it returns, every request was sent
\* and answered, a failed one has the entry (url, None, error), a successful
\* one (url, result, None): exactly one of result and error is set.
C5_ErrorsIsolated ==
    /\ bpc # "raised"
    /\ bpc = "returned" =>
          \A i \in 1..Len(urls) :
              LET o == futures[i].outcome
                  e == results[i]
              IN  /\ o \in Outcomes
                  /\ Failed(o) => e = [url |-> urls[i], result |-> NoResult,
                                       error |-> RequestError(o)]
                  /\ ~Failed(o) => e.error = NoError
                  /\ (e.result # NoResult) # (e.error # NoError)

\* C5 witness: the first request failed in transport, the second succeeded.
C5_Witness ==
    /\ bpc = "returned" /\ Len(urls) >= 2
    /\ futures[1].outcome = "transport" /\ results[1].error = "TransportError"
    /\ futures[2].outcome = "json" /\ results[2].result = 2

\* C6: every request of the batch is eventually sent and answered and the
\* call returns an entry for each; no entry is a rate-limit exception.
C6_AllDelivered ==
    <>(/\ bpc = "returned"
       /\ Len(results) = Len(urls)
       /\ \A i \in 1..Len(urls) :
             /\ futures[i].outcome \in Outcomes
             /\ results[i].error # "RateLimitException")

\* C6 witness: a batch larger than qps_limit and than max_workers returned
\* after one of its requests slept for the rate limit.
C6_Witness ==
    /\ bpc = "returned" /\ delayed
    /\ Len(urls) > qps_limit /\ Len(urls) > max_workers
    /\ \A i \in 1..Len(urls) : futures[i].outcome = "json"

\* ------------------------------------------------------ retry_on_exception
MaxRetries == 3       \* largest max_retries given to the decorator
MaxDelay   == 1       \* largest delay given to the decorator

DefaultMaxRetries == 3
DefaultDelay      == 1

\* Faulty variant: a bare `except:` around the attempt
CatchesEverything(excs, cls) == TRUE

\* Exception classes a wrapped function raises in this model.
FuncExcs == {"ValueError", "OSError"}

\* `except exceptions as e`: whether an exception of class cls is caught.
\* The default exceptions=(Exception,) catches every class used here.
Catches(excs, cls) == cls \in excs \/ "Exception" \in excs

\* `from time import time`: the name `time` in client.py is the function
\* time.time, which has no attribute `sleep`; with `import time` it would be
\* the module.
TimeIsModule == FALSE

\* time.sleep(delay) in the wrapper: it sleeps, or the attribute lookup
\* raises AttributeError.
TimeSleep == IF TimeIsModule THEN "slept" ELSE "AttributeError"

\* wrapper: `retries = 0`
WrapperEnter ==
    /\ retries' = 0 /\ rpc' = "loop" /\ rexc' = NoExc /\ rret' = 0
    /\ attempts' = 0 /\ rwaits' = 0 /\ lastExc' = NoExc
    /\ UNCHANGED <<r_excs, r_max, r_delay>>

\* wrapper: `while retries < max_retries:` then `try: return func(...)`;
\* when the loop ends the wrapper falls off its end and returns None.
WrapperLoop ==
    /\ rpc = "loop"
    /\ IF retries < r_max
       THEN rpc' = "call" /\ attempts' = attempts + 1 /\ rret' = rret
       ELSE rpc' = "returned" /\ attempts' = attempts /\ rret' = 0
    /\ UNCHANGED <<r_excs, r_max, r_delay, retries, rexc, rwaits, lastExc>>
    /\ UNCHANGED <<hvars, uvars, avars, cvars, tvars, bvars, xvars>>

\* The attempt in progress returns value v.
FuncReturns(v) ==
    /\ rpc' = "returned" /\ rret' = v
    /\ UNCHANGED <<r_excs, r_max, r_delay, retries, rexc, attempts, rwaits,
                   lastExc>>

\* The attempt in progress raises an exception of class cls: the wrapper's
\* except clause catches it, or it propagates.
FuncRaises(cls) ==
    LET e == [cls |-> cls, at |-> attempts]
    IN  /\ rpc' = IF Catches(r_excs, cls) THEN "caught" ELSE "raised"
        /\ rexc' = e /\ lastExc' = e
        /\ UNCHANGED <<r_excs, r_max, r_delay, retries, rret, attempts,
                       rwaits>>

\* wrapper, except branch: `retries += 1`, re-raise when the budget is
\* used up, else time.sleep(delay) and loop.
WrapperExcept ==
    /\ rpc = "caught"
    /\ retries' = retries + 1
    /\ IF retries + 1 >= r_max
       THEN rpc' = "raised" /\ rexc' = rexc /\ rwaits' = rwaits
       ELSE IF TimeSleep = "slept"
       THEN rpc' = "loop" /\ rexc' = rexc /\ rwaits' = rwaits + 1
       ELSE /\ rpc' = "raised"
            /\ rexc' = [cls |-> "AttributeError", at |-> 0]
            /\ rwaits' = rwaits
    /\ UNCHANGED <<r_excs, r_max, r_delay, rret, attempts, lastExc>>
    /\ UNCHANGED <<hvars, uvars, avars, cvars, tvars, bvars, xvars>>

\* A function decorated with retry_on_exception(exceptions, max_retries,
\* delay) has just been called.
RetryInit ==
    /\ r_excs \in {{"Exception"}, {"ValueError"}, {"ValueError", "OSError"}}
    /\ r_max \in (-1)..MaxRetries
    /\ r_delay \in 0..MaxDelay
    /\ retries = 0 /\ rpc = "loop" /\ rexc = NoExc /\ rret = 0
    /\ attempts = 0 /\ rwaits = 0 /\ lastExc = NoExc
    /\ qps_limit = 0 /\ max_workers = 0
    /\ limiter = [num_calls |-> 0, elapsed |-> 0]
    /\ urls = <<>> /\ bmethod = "GET"
    /\ futures = <<>> /\ queue = <<>> /\ results = <<>>
    /\ bpc = "off"
    /\ thr = [t \in Threads |-> IdleThread]
    /\ recent = [a \in 0..(TicksPerSec - 1) |-> 0]
    /\ winSent = 0 /\ reordered = FALSE /\ delayed = FALSE
    /\ UploadOff /\ ApiOff /\ ClientOff /\ ClockOff /\ BitableOff

\* The wrapped function ends: it returns a value or raises.
FuncEnds ==
    /\ rpc = "call"
    /\ \/ \E v \in {1, 2} : FuncReturns(v)
       \/ \E cls \in FuncExcs : FuncRaises(cls)
    /\ UNCHANGED <<hvars, uvars, avars, cvars, tvars, bvars, xvars>>

RetryNext ==
    \/ WrapperLoop
    \/ FuncEnds
    \/ WrapperExcept

RetrySpec == RetryInit /\ [][RetryNext]_vars

\* C10 (as claimed): when every attempt raises an exception of the configured
\* set, the function is attempted exactly max_retries times, with a sleep of
\* `delay` between consecutive attempts, and the exception of the last
\* attempt is raised.
C10_RetriesExhausted ==
    (rpc = "raised" /\ Catches(r_excs, lastExc.cls)) =>
        /\ attempts = r_max
        /\ rwaits = r_max - 1
        /\ rexc = lastExc

\* --------------------------------------------- BitableApiClient.upload_file
MaxFileSize  == 5     \* largest file, in bytes
MaxBlockSize == 2     \* largest block_size the server answers
MaxBlockNum  == 3     \* largest block_num the server answers

NoToken   == 0        \* _tenant_access_token is None
UploadIds == {1, 2}   \* upload ids the server hands out

\* The files of the model: byte i of a file is i.
Files == {[i \in 1..n |-> i] : n \in 0..MaxFileSize}

\* What the server does with a request: code 0, code != 0, or the
\* transport fails (no connection, timeout, non-2xx status).
Answers == {"ok", "app", "transport"}

\* The exception an operation raises for an answer: ValueError when the
\* body has code != 0, the httpx error when the transport failed.
AnswerError(a) == IF a = "app" THEN "ValueError" ELSE "HTTPError"

\* Faulty variant: only a failed transport raises, code != 0 is ignored
AnswerRaisesTransportOnly(a) == a = "transport"

\* Whether an answer makes the operation raise
\* (`if data.get("code") != 0: raise ValueError(...)`, raise_for_status()).
AnswerRaises(a) == a # "ok"

\* data[start:end] for 0 <= start, 0 <= end (Python slicing clamps both).
PySlice(data, start, end) ==
    LET lo == Min(start, Len(data))
        hi == Min(end, Len(data))
    IN  IF lo < hi THEN SubSeq(data, lo + 1, hi) ELSE <<>>

\* Faulty variant: `end` one byte short
BlockDataShort(data, sq, block_size) ==
    PySlice(data, sq * block_size,
            Min((sq + 1) * block_size, Len(data)) - 1)

\* upload_file: block_data of the part with sequence number sq.
BlockData(data, sq, block_size) ==
    LET start == sq * block_size
        end   == Min((sq + 1) * block_size, Len(data))
    IN  PySlice(data, start, end)

\* Faulty variant: reversed(range(block_num))
RangeAtReversed(block_num, idx) == block_num - 1 - idx

\* `for seq in range(block_num)`: the value of seq in iteration idx (from 0).
RangeAt(block_num, idx) == idx

\* zlib.adler32: the running sums a and b after the bytes of data, both
\* kept modulo 65521.
RECURSIVE AdlerSums(_, _, _)
AdlerSums(data, a, b) ==
    IF data = <<>>
    THEN [hi |-> b, lo |-> a]
    ELSE LET a2 == (a + Head(data)) % 65521
         IN  AdlerSums(Tail(data), a2, (b + a2) % 65521)

\* Faulty variant: the sum a starts at 0
Adler32NoInit(data) == AdlerSums(data, 0, 0)

\* zlib.adler32(file_data): a starts at 1, b at 0; the value is
\* (b << 16) | a, kept here as its two 16-bit halves.
Adler32(data) == AdlerSums(data, 1, 0)

\* `& 0xFFFFFFFF`: the low 32 bits, 16 of each half.
Mask32(v) == [hi |-> v.hi % 65536, lo |-> v.lo % 65536]

NoChecksum == [hi |-> 0, lo |-> 0]

\* Faulty variant: the upload id of the first upload_file call is kept
SessionIdFirst(p) == IF earlier # <<>> THEN earlier[1] ELSE p.upload_id

\* prepare_response.upload_id: the upload id of the requests that follow
\* upload_prepare, a local of the upload_file call.
SessionId(p) == p.upload_id

Request(kind, id, sq, size, bn, cksm) ==
    [kind |-> kind, upload_id |-> id, seq |-> sq, size |-> size,
     block_num |-> bn, checksum |-> cksm]

\* The request of operation op of the current upload.
OpRequest(op) ==
    CASE op = "prepare" ->
            Request("prepare", 0, 0, Len(file_data), 0, NoChecksum)
      [] op = "part" ->
            LET sq         == RangeAt(prep.block_num, seqIdx)
                block_data == BlockData(file_data, sq, prep.block_size)
            IN  Request("part", SessionId(prep), sq, Len(block_data), 0,
                        Mask32(Adler32(block_data)))
      [] op = "finish" ->
            Request("finish", SessionId(prep), 0, 0, prep.block_num,
                    NoChecksum)

\* _get_headers() then the request of operation op: when no token is cached
\* the token is fetched first (_get_tenant_access_token).
SendWithHeaders(op) ==
    IF token # NoToken
    THEN /\ sent' = Append(sent, OpRequest(op))
         /\ upc' = "wait"
         /\ ucont' = op
    ELSE /\ sent' = Append(sent, Request("token", 0, 0, 0, 0, NoChecksum))
         /\ upc' = "token_wait"
         /\ ucont' = op

\* upload_file was just called, with or without a cached token.
UploadInit ==
    /\ file_exists \in BOOLEAN
    /\ file_data \in (IF file_exists THEN Files ELSE {<<>>})
    /\ token \in {NoToken, 1}
    /\ upc = "start" /\ ucont = "none" /\ prep = NoPrep /\ seqIdx = 0
    /\ sent = <<>> /\ acked = <<>> /\ uexc = NoExc /\ file_token = 0
    /\ r_excs = {"Exception"} /\ r_max = DefaultMaxRetries
    /\ r_delay = DefaultDelay
    /\ retries = 0 /\ rpc = "off" /\ rexc = NoExc /\ rret = 0
    /\ attempts = 0 /\ rwaits = 0 /\ lastExc = NoExc
    /\ qps_limit = 0 /\ max_workers = 0
    /\ limiter = [num_calls |-> 0, elapsed |-> 0]
    /\ urls = <<>> /\ bmethod = "GET"
    /\ futures = <<>> /\ queue = <<>> /\ results = <<>>
    /\ bpc = "off"
    /\ thr = [t \in Threads |-> IdleThread]
    /\ recent = [a \in 0..(TicksPerSec - 1) |-> 0]
    /\ winSent = 0 /\ reordered = FALSE /\ delayed = FALSE
    /\ ApiOff /\ ClientOff /\ ClockOff /\ BitableOff

\* Faulty variant: _get_headers() and the request before the file is looked at
PrepareCallHeadersFirst ==
    /\ upc = "start"
    /\ SendWithHeaders("prepare") /\ uexc' = uexc
    /\ UNCHANGED <<file_exists, file_data, token, prep, seqIdx, acked,
                   file_token>>
    /\ UNCHANGED <<hvars, rvars, avars, cvars, tvars, bvars, xvars>>

\* upload_file -> upload_file_prepare: os.path.getsize(file_path), then
\* _get_headers() and the prepare request.
PrepareCall ==
    /\ upc = "start"
    /\ IF file_exists
       THEN SendWithHeaders("prepare") /\ uexc' = uexc
       ELSE /\ upc' = "raised"
            /\ uexc' = [cls |-> "FileNotFoundError", at |-> 0]
            /\ UNCHANGED <<sent, ucont>>
    /\ UNCHANGED <<file_exists, file_data, token, prep, seqIdx, acked,
                   file_token>>
    /\ UNCHANGED <<hvars, rvars, avars, cvars, tvars, bvars, xvars>>

\* An exception of class cls leaves operation ucont: inside upload_file_part
\* it reaches the retry wrapper, elsewhere it leaves upload_file.
OpRaises(cls) ==
    IF ucont = "part"
    THEN /\ FuncRaises(cls)
         /\ upc' = "wrapper"
         /\ uexc' = uexc
    ELSE /\ upc' = "raised"
         /\ uexc' = [cls |-> cls, at |-> 0]
         /\ UNCHANGED rvars

\* _get_tenant_access_token: the answer to the token request.
TokenResponse(a) ==
    /\ upc = "token_wait"
    /\ IF AnswerRaises(a)
       THEN OpRaises(AnswerError(a)) /\ UNCHANGED <<token, sent>>
       ELSE /\ token' = 1
            /\ sent' = Append(sent, OpRequest(ucont))
            /\ upc' = "wait"
            /\ UNCHANGED <<uexc, rvars>>
    /\ UNCHANGED <<file_exists, file_data, ucont, prep, seqIdx, acked,
                   file_token>>
    /\ UNCHANGED <<hvars, avars, cvars, tvars, bvars, xvars>>

\* upload_file_prepare: the answer; then upload_file reads the file.
PrepareResponse(a, id, bs, bn) ==
    /\ upc = "wait" /\ ucont = "prepare"
    /\ IF AnswerRaises(a)
       THEN OpRaises(AnswerError(a)) /\ UNCHANGED <<prep, seqIdx>>
       ELSE /\ prep' = [upload_id |-> id, block_size |-> bs, block_num |-> bn]
            /\ seqIdx' = 0
            /\ upc' = "loop"
            /\ UNCHANGED <<uexc, rvars>>
    /\ UNCHANGED <<file_exists, file_data, token, ucont, sent, acked,
                   file_token>>
    /\ UNCHANGED <<hvars, avars, cvars, tvars, bvars, xvars>>

\* upload_file: `for seq in range(block_num)` calls upload_file_part (the
\* retry wrapper); after the loop upload_file_finish is called.
PartLoop ==
    /\ upc = "loop"
    /\ IF seqIdx < prep.block_num
       THEN /\ WrapperEnter
            /\ upc' = "wrapper"
            /\ UNCHANGED <<sent, ucont>>
       ELSE /\ SendWithHeaders("finish")
            /\ UNCHANGED rvars
    /\ UNCHANGED <<file_exists, file_data, token, prep, seqIdx, acked, uexc,
                   file_token>>
    /\ UNCHANGED <<hvars, avars, cvars, tvars, bvars, xvars>>

\* upload_file_part, the wrapped function: _get_headers(), the checksum and
\* the upload_part request.
PartCall ==
    /\ upc = "wrapper" /\ rpc = "call"
    /\ SendWithHeaders("part")
    /\ rpc' = "running"
    /\ UNCHANGED <<r_excs, r_max, r_delay, retries, rexc, rret, attempts,
                   rwaits, lastExc>>
    /\ UNCHANGED <<file_exists, file_data, token, prep, seqIdx, acked, uexc,
                   file_token>>
    /\ UNCHANGED <<hvars, avars, cvars, tvars, bvars, xvars>>

\* upload_file_part: the answer to the upload_part request.
PartResponse(a) ==
    /\ upc = "wait" /\ ucont = "part"
    /\ IF AnswerRaises(a)
       THEN OpRaises(AnswerError(a))
       ELSE FuncReturns(1) /\ upc' = "wrapper" /\ uexc' = uexc
    /\ acked' = IF a = "ok"
                THEN Append(acked, [upload_id |-> sent[Len(sent)].upload_id,
                                    seq |-> sent[Len(sent)].seq])
                ELSE acked
    /\ UNCHANGED <<file_exists, file_data, token, ucont, prep, seqIdx, sent,
                   file_token>>
    /\ UNCHANGED <<hvars, avars, cvars, tvars, bvars, xvars>>

\* Faulty variant: `try: self.upload_file_part(...) except Exception: pass`
AfterPartSwallowed(r) == "loop"

\* upload_file: where control goes when the call of upload_file_part ends:
\* the call is a plain statement of the loop body, so an exception leaves
\* upload_file.
AfterPart(r) == IF r = "returned" THEN "loop" ELSE "raised"

\* upload_file: the call of upload_file_part is over: next iteration, or
\* the exception leaves upload_file.
PartDone ==
    /\ upc = "wrapper" /\ rpc \in {"returned", "raised"}
    /\ upc' = AfterPart(rpc)
    /\ IF rpc = "returned"
       THEN seqIdx' = seqIdx + 1 /\ uexc' = uexc
       ELSE seqIdx' = seqIdx /\ uexc' = rexc
    /\ rpc' = "off"
    /\ UNCHANGED <<r_excs, r_max, r_delay, retries, rexc, rret, attempts,
                   rwaits, lastExc>>
    /\ UNCHANGED <<file_exists, file_data, token, ucont, prep, sent, acked,
                   file_token>>
    /\ UNCHANGED <<hvars, avars, cvars, tvars, bvars, xvars>>

\* upload_file_finish: the answer; upload_file returns the file token.
FinishResponse(a) ==
    /\ upc = "wait" /\ ucont = "finish"
    /\ IF AnswerRaises(a)
       THEN OpRaises(AnswerError(a)) /\ file_token' = file_token
       ELSE upc' = "done" /\ file_token' = 1 /\ UNCHANGED <<uexc, rvars>>
    /\ UNCHANGED <<file_exists, file_data, token, ucont, prep, seqIdx, sent,
                   acked>>
    /\ UNCHANGED <<hvars, avars, cvars, tvars, bvars, xvars>>

UploadNext ==
    \/ PrepareCall
    \/ \E a \in Answers : TokenResponse(a)
    \/ \E a \in Answers, id \in UploadIds, bs \in 0..MaxBlockSize,
          bn \in 0..MaxBlockNum : PrepareResponse(a, id, bs, bn)
    \/ PartLoop
    \/ WrapperLoop
    \/ PartCall
    \/ \E a \in Answers : PartResponse(a)
    \/ WrapperExcept
    \/ PartDone
    \/ \E a \in Answers : FinishResponse(a)

UploadSpec == UploadInit /\ [][UploadNext]_vars

\* The requests of one kind, in the order they were sent.
SentOf(kind) == SelectSeq(sent, LAMBDA q : q.kind = kind)
PartsSent    == SentOf("part")
FinishesSent == SentOf("finish")

RECURSIVE SumSizes(_)
SumSizes(parts) ==
    IF parts = <<>> THEN 0 ELSE Head(parts).size + SumSizes(Tail(parts))

\* C7: an upload_finish request is sent only once exactly block_num
\* upload_part requests of its upload_id were acknowledged with code 0, one
\* for each sequence number 0..block_num-1 in that order, and at most one
\* upload_finish request is sent.
C7_FinishAfterAllParts ==
    /\ Len(FinishesSent) <= 1
    /\ \A i \in 1..Len(FinishesSent) :
          LET fin == FinishesSent[i]
          IN  /\ Len(acked) = fin.block_num
              /\ \A k \in 1..Len(acked) :
                    acked[k] = [upload_id |-> fin.upload_id, seq |-> k - 1]

C7_Witness ==
    /\ upc = "wait" /\ ucont = "finish"
    /\ Len(FinishesSent) = 1
    /\ FinishesSent[1].block_num = 2
    /\ Len(acked) = 2

\* C8: the sequence numbers of the upload_part requests never decrease in
\* the order the requests are sent, they lie in 0..block_num-1, and once
\* the loop is over every number of 0..block_num-1 was sent.
C8_SeqMonotone ==
    /\ \A i, j \in 1..Len(PartsSent) :
          i < j => PartsSent[i].seq <= PartsSent[j].seq
    /\ \A i \in 1..Len(PartsSent) :
          PartsSent[i].seq \in 0..(prep.block_num - 1)
    /\ FinishesSent # <<>> =>
          {PartsSent[i].seq : i \in 1..Len(PartsSent)}
              = 0..(prep.block_num - 1)

C8_Witness ==
    /\ upc = "done"
    /\ Len(PartsSent) = 3
    /\ \A i \in 1..3 : PartsSent[i].seq = i - 1

\* The chunks of a finished part loop are a split of the file: their
\* lengths sum to the file size, every chunk but the last has length
\* block_size, the last has at most block_size, and the sequence numbers
\* are 0, 1, 2, ...
ChunksSplitFile ==
    LET parts == PartsSent
        n     == Len(parts)
    IN  /\ SumSizes(parts) = Len(file_data)
        /\ \A k \in 1..n : parts[k].seq = k - 1
        /\ \A k \in 1..(n - 1) : parts[k].size = prep.block_size
        /\ n >= 1 => parts[n].size <= prep.block_size

\* block_num blocks of block_size bytes hold the file, and no block but
\* the last is short.
PrepareFitsFile ==
    /\ Len(file_data) <= prep.block_num * prep.block_size
    /\ prep.block_num >= 1 =>
          (prep.block_num - 1) * prep.block_size <= Len(file_data)

\* C9 (as claimed): for every file size and every block_size / block_num
\* answered by upload_prepare, the chunks upload_file has sent when it
\* finishes are a split of the file.
C9_ChunksForEveryPrepare == FinishesSent # <<>> => ChunksSplitFile

\* C9 (amended): when upload_file finishes, the chunks it has sent are a
\* split of the file exactly when the block_size / block_num answered by
\* upload_prepare fit the file size.
C9_ChunksWhenPrepareFits ==
    FinishesSent # <<>> => (ChunksSplitFile <=> PrepareFitsFile)

C9_Witness ==
    /\ upc = "done"
    /\ Len(file_data) = 5 /\ prep.block_size = 2 /\ prep.block_num = 3
    /\ Len(PartsSent) = 3
    /\ PartsSent[1].size = 2 /\ PartsSent[2].size = 2
    /\ PartsSent[3].size = 1
    /\ FinishesSent[1].block_num = 3

\* The last request sent.
LastSent == sent[Len(sent)]

\* C11 (as claimed): transport errors of upload_file_part are absorbed while
\* attempts are left: a call of upload_file_part whose last attempt failed
\* with a transport error raises to upload_file only when all max_retries
\* attempts were made.
C11_TransientAbsorbed ==
    (upc = "wrapper" /\ rpc = "raised" /\ lastExc.cls = "HTTPError") =>
        attempts = r_max

\* C12 (as claimed): when the upload_part response has code != 0, the call
\* of upload_file_part makes no further attempt and the application error
\* (the ValueError) is what reaches the caller.
C12_AppErrorPropagates ==
    (/\ upc = "raised" /\ ucont = "part"
     /\ LastSent.kind = "part" /\ lastExc.cls = "ValueError") =>
        /\ attempts = 1
        /\ uexc.cls = "ValueError"

\* C13: when a call of upload_file_part raises, upload_file raises to its
\* caller, no upload_part with a later sequence number is sent and no
\* upload_finish is sent.
C13_AbortOnPartFailure ==
    (ucont = "part" /\ uexc # NoExc) =>
        /\ upc = "raised"
        /\ FinishesSent = <<>>
        /\ \A i \in 1..Len(PartsSent) :
              PartsSent[i].seq <= RangeAt(prep.block_num, seqIdx)
        /\ Len(PartsSent) <= seqIdx + 1

C13_Witness ==
    /\ upc = "raised" /\ ucont = "part"
    /\ prep.block_num = 3 /\ seqIdx = 1
    /\ Len(acked) = 1 /\ Len(PartsSent) = 2
    /\ LastSent.kind = "part" /\ LastSent.seq = 1

\* C14: when the file does not exist, upload_file raises the filesystem
\* error without sending any request (no token fetch either), and the
\* cached token keeps its value.
C14_MissingFileNoRequest ==
    [][(~file_exists) =>
          /\ sent' = <<>>
          /\ token' = token
          /\ upc' = "raised"
          /\ uexc'.cls = "FileNotFoundError"]_vars

C14_Witness ==
    /\ ~file_exists /\ upc = "raised"
    /\ uexc.cls = "FileNotFoundError"
    /\ token # NoToken /\ sent = <<>>

RECURSIVE SumSeq(_)
SumSeq(s) == IF s = <<>> THEN 0 ELSE Head(s) + SumSeq(Tail(s))

\* The chunk upload_file hands to upload_file_part for sequence number sq.
ChunkOf(sq) == BlockData(file_data, sq, prep.block_size)

\* C21: every upload_part request carries the upload_id of the prepare
\* answer, its sequence number, size = len(chunk) and the Adler-32 value of
\* the chunk (low half: 1 plus the bytes, high half: the running sums of
\* the low half, both modulo 65521); two requests for the same upload_id
\* and sequence number are equal, and the upload_finish request carries the
\* upload_id and block_num of the prepare answer.
C21_PartRequestIdempotent ==
    /\ \A i \in 1..Len(PartsSent) :
          LET q   == PartsSent[i]
              blk == ChunkOf(q.seq)
              n   == Len(blk)
          IN  /\ q.upload_id = prep.upload_id
              /\ q.size = n
              /\ q.checksum.lo = (1 + SumSeq(blk)) % 65521
              /\ q.checksum.hi =
                    (n + SumSeq([k \in 1..n |-> (n - k + 1) * blk[k]]))
                        % 65521
    /\ \A i, j \in 1..Len(PartsSent) :
          (/\ PartsSent[i].upload_id = PartsSent[j].upload_id
           /\ PartsSent[i].seq = PartsSent[j].seq)
              => PartsSent[i] = PartsSent[j]
    /\ \A i \in 1..Len(FinishesSent) :
          /\ FinishesSent[i].upload_id = prep.upload_id
          /\ FinishesSent[i].block_num = prep.block_num

C21_Witness ==
    /\ upc = "done"
    /\ Len(file_data) = 5 /\ prep.block_size = 2 /\ prep.block_num = 3
    /\ Len(PartsSent) = 3
    /\ PartsSent[2].size = 2
    /\ PartsSent[2].checksum = [hi |-> 12, lo |-> 8]
    /\ PartsSent[3].checksum = [hi |-> 6, lo |-> 6]
    /\ FinishesSent[1].block_num = 3

\* ------------------------------------------- upload_file, called again
MaxUploads == 2       \* upload_file calls made on one client

\* upload_file has returned or raised and is called again on the same
\* client: the token stays cached, the locals are new.
UploadAgain ==
    /\ upc \in {"done", "raised"}
    /\ Len(earlier) + 1 < MaxUploads
    /\ earlier' = Append(earlier, prep.upload_id)
    /\ upc' = "start" /\ ucont' = "none" /\ prep' = NoPrep /\ seqIdx' = 0
    /\ sent' = <<>> /\ acked' = <<>> /\ uexc' = NoExc /\ file_token' = 0
    /\ retries' = 0 /\ rpc' = "off" /\ rexc' = NoExc /\ rret' = 0
    /\ attempts' = 0 /\ rwaits' = 0 /\ lastExc' = NoExc
    /\ UNCHANGED <<file_exists, file_data, token, r_excs, r_max, r_delay>>
    /\ UNCHANGED <<hvars, avars, cvars, tvars, bvars, ctors>>

ReuploadNext == UploadNext \/ UploadAgain

ReuploadSpec == UploadInit /\ [][ReuploadNext]_vars

PreparesSent == SentOf("prepare")

Qps5       == 5       \* HttpClient(timeout=30, qps_limit=5, max_workers=5)
Workers5   == 5
Qps100     == 100     \* HttpClient(timeout=30, qps_limit=100, max_workers=10)
Workers100 == 10
Timeout30  == 30

\* HttpClient.__init__: a new object with its own limits(...) counter.
NewHttpClient(t, q, w) ==
    [timeout |-> t, qps_limit |-> q, max_workers |-> w,
     limiter |-> [num_calls |-> 0, elapsed |-> 0]]

\* Faulty variant: a plain class, every call constructs an object
get_instance_plain(t, q, w) ==
    [objs |-> Append(objs, NewHttpClient(t, q, w)),
     instances |-> Len(objs) + 1, ref |-> Len(objs) + 1]

\* singleton.get_instance: `if cls not in instances:
\* instances[cls] = cls(*args, **kwargs)`, then `return instances[cls]`.
get_instance(t, q, w) ==
    IF instances = 0
    THEN [objs |-> Append(objs, NewHttpClient(t, q, w)),
          instances |-> Len(objs) + 1, ref |-> Len(objs) + 1]
    ELSE [objs |-> objs, instances |-> instances, ref |-> instances]

\* The object an attribute of the BitableApiClient refers to.
RefOf(a) == IF a = "client_qps5" THEN client_qps5 ELSE client_qps100

\* The quota the attribute was constructed for.
QpsOf(a) == IF a = "client_qps5" THEN Qps5 ELSE Qps100

ApiInit ==
    /\ instances = 0 /\ objs = <<>>
    /\ client_qps5 = 0 /\ client_qps100 = 0
    /\ apc = "qps5"
    /\ via = [a \in Attrs |-> 0]
    /\ asleep = [a \in Attrs |-> 0]
    /\ RetryOff /\ UploadOff /\ ClientOff /\ ClockOff /\ BitableOff
    /\ qps_limit = 0 /\ max_workers = 0
    /\ limiter = [num_calls |-> 0, elapsed |-> 0]
    /\ urls = <<>> /\ bmethod = "GET"
    /\ futures = <<>> /\ queue = <<>> /\ results = <<>>
    /\ bpc = "off"
    /\ thr = [t \in Threads |-> IdleThread]
    /\ recent = [a \in 0..(TicksPerSec - 1) |-> 0]
    /\ winSent = 0 /\ reordered = FALSE /\ delayed = FALSE

\* __init__: self.client_qps5 = HttpClient(timeout=30, qps_limit=5, ...)
NewClientQps5 ==
    /\ apc = "qps5"
    /\ LET g == get_instance(Timeout30, Qps5, Workers5)
       IN  /\ objs' = g.objs
           /\ instances' = g.instances
           /\ client_qps5' = g.ref
    /\ apc' = "qps100"
    /\ UNCHANGED <<client_qps100, via, asleep>>
    /\ UNCHANGED <<hvars, rvars, uvars, cvars, tvars, bvars, xvars>>

\* __init__: self.client_qps100 = HttpClient(timeout=30, qps_limit=100, ...)
NewClientQps100 ==
    /\ apc = "qps100"
    /\ LET g == get_instance(Timeout30, Qps100, Workers100)
       IN  /\ objs' = g.objs
           /\ instances' = g.instances
           /\ client_qps100' = g.ref
    /\ apc' = "ready"
    /\ UNCHANGED <<client_qps5, via, asleep>>
    /\ UNCHANGED <<hvars, rvars, uvars, cvars, tvars, bvars, xvars>>

\* self.<a>.limited_post(...): one pass of a caller through the limits
\* wrapper of the object the attribute refers to; the caller sends the
\* request or sleeps period_remaining (sleep_and_retry).
LimitedPost(a) ==
    /\ apc = "ready"
    /\ asleep[a] = 0
    /\ LET o == RefOf(a)
           r == LimitsCall(objs[o].limiter, objs[o].qps_limit)
           v == [b \in Attrs |->
                    IF r.reset /\ RefOf(b) = o THEN 0 ELSE via[b]]
       IN  /\ objs' = [objs EXCEPT ![o].limiter = r.lim]
           /\ IF sleep_and_retry(r.admitted) = "send"
              THEN /\ via' = [v EXCEPT ![a] = @ + 1]
                   /\ asleep' = asleep
              ELSE /\ via' = v
                   /\ asleep' = [asleep EXCEPT ![a] = r.period_remaining]
    /\ UNCHANGED <<instances, client_qps5, client_qps100, apc>>
    /\ UNCHANGED <<hvars, rvars, uvars, cvars, tvars, bvars, xvars>>

\* One tick of the clock passes.
ApiTick ==
    /\ apc = "ready"
    /\ objs' = [i \in 1..Len(objs) |->
                   [objs[i] EXCEPT !.limiter.elapsed = Min(@ + 1, TicksPerSec)]]
    /\ asleep' = [a \in Attrs |-> Max(asleep[a] - 1, 0)]
    /\ UNCHANGED <<instances, client_qps5, client_qps100, apc, via>>
    /\ UNCHANGED <<hvars, rvars, uvars, cvars, tvars, bvars, xvars>>

ApiNext ==
    \/ NewClientQps5
    \/ NewClientQps100
    \/ \E a \in Attrs : LimitedPost(a)
    \/ ApiTick

ApiSpec == ApiInit /\ [][ApiNext]_vars

\* C3 (as claimed): the two executors are independent: a caller through
\* one attribute is delayed by the rate limiter only when the quota that
\* attribute was constructed with is used up by requests sent through that
\* same attribute in the current window.
C3_Independent ==
    \A a \in Attrs : asleep[a] > 0 => via[a] >= QpsOf(a)

\* ----------------------------- BitableApiClient: the domain operations
MaxOps     == 2       \* operations one caller performs
MaxRecords == 2       \* longest record list given to batch_create_records
MaxPages   == 2       \* most pages the server splits a table list into

Ops == {"get_table_fields", "list_tables", "create_table",
        "batch_create_records", "upload_file_prepare", "upload_file_part",
        "upload_file_finish"}

TokenValues == {1, 2}          \* tenant_access_token values the server issues
TableIds    == {"t1", "t2"}
PageTokens  == {1, 2}

\* retry_on_exception(): the default `exceptions`.
DefaultExceptions == {"Exception"}

\* Whether BitableApiClient has an attribute http_get: the class defines
\* none and has no base class or __getattr__.
HasHttpGet == FALSE

\* The operations that call self.http_get(...).
UsesHttpGet(op) == op \in {"get_table_fields", "list_tables"}

\* Faulty variant: the cached token is never used
TokenCachedNever(tok) == FALSE

\* _get_tenant_access_token: `if self._tenant_access_token:`.
TokenCached(tok) == tok # NoToken

\* Faulty variant: the token of the body is stored before code is checked
StoredTokenUnchecked(a, tv, old) == IF a = "transport" THEN old ELSE tv

\* _get_tenant_access_token: the value of _tenant_access_token after the
\* answer: assigned only past the `code != 0` check.
StoredToken(a, tv, old) == IF a = "ok" THEN tv ELSE old

\* dict.update: the entries of d replace those of res with the same key.
DictUpdate(res, d) ==
    [k \in (DOMAIN res) \cup (DOMAIN d) |->
        IF k \in DOMAIN d THEN d[k] ELSE res[k]]

NoRet == [ok |-> FALSE, data |-> <<>>]

\* A caller that is in no operation, with `left` operations to go.
IdleCaller(left) ==
    [pc |-> "idle", op |-> "none", left |-> left, n |-> 0, ans |-> "none",
     exc |-> "None", ret |-> NoRet, retries |-> 0, reqs |-> 0,
     pages |-> <<>>]

ApiRequest(op, c, n, pt) ==
    [kind |-> op, by |-> c, n |-> n, page_token |-> pt]

\* The operation of a caller ends: it raises cls or returns ret.
Ended(st, cls, ret) == [st EXCEPT !.pc = "idle", !.exc = cls, !.ret = ret]

\* Faulty variant: `except Exception: return None` around the operation
RaisedReturnsNone(st, cls) == Ended(st, "None", NoRet)

\* An exception of class cls is raised inside the operation. In
\* upload_file_part it first meets the retry_on_exception() wrapper:
\* `retries += 1`, re-raise when retries >= max_retries, else
\* time.sleep(delay) and another attempt.
Raised(st, cls) ==
    IF st.op = "upload_file_part" /\ Catches(DefaultExceptions, cls)
    THEN LET st1 == [st EXCEPT !.retries = @ + 1]
         IN  IF st1.retries >= DefaultMaxRetries
             THEN Ended(st1, cls, NoRet)
             ELSE IF TimeSleep = "slept"
             THEN [st1 EXCEPT !.pc = "headers"]
             ELSE Ended(st1, "AttributeError", NoRet)
    ELSE Ended(st, cls, NoRet)

\* The operation has its headers and issues the request to its own
\* endpoint: self.http_get(...) or self.client_qps5.limited_post(...).
OwnRequest(c, st, pt) ==
    IF UsesHttpGet(st.op) /\ ~HasHttpGet
    THEN [st |-> Raised(st, "AttributeError"), sent |-> sent]
    ELSE [st   |-> [st EXCEPT !.pc = "op_wait", !.reqs = @ + 1],
          sent |-> Append(sent, ApiRequest(st.op, c, st.n, pt))]

\* The variables of upload_file that the operations leave alone.
uploadLocals ==
    <<file_exists, file_data, upc, ucont, prep, seqIdx, acked, uexc,
      file_token>>

\* A client with its callers; the token may be cached already.
ClientInit ==
    /\ token \in {NoToken} \cup TokenValues
    /\ sent = <<>>
    /\ cst = [c \in callers |-> IdleCaller(MaxOps)]
    /\ writes = 0
    /\ file_exists = TRUE /\ file_data = <<>>
    /\ upc = "off" /\ ucont = "none" /\ prep = NoPrep /\ seqIdx = 0
    /\ acked = <<>> /\ uexc = NoExc /\ file_token = 0
    /\ RetryOff /\ ApiOff /\ ClockOff /\ BitableOff
    /\ qps_limit = 0 /\ max_workers = 0
    /\ limiter = [num_calls |-> 0, elapsed |-> 0]
    /\ urls = <<>> /\ bmethod = "GET"
    /\ futures = <<>> /\ queue = <<>> /\ results = <<>>
    /\ bpc = "off"
    /\ thr = [t \in Threads |-> IdleThread]
    /\ recent = [a \in 0..(TicksPerSec - 1) |-> 0]
    /\ winSent = 0 /\ reordered = FALSE /\ delayed = FALSE

\* A caller calls operation op (batch_create_records with n records).
CallOp(c, op, n) ==
    /\ c \in callers
    /\ cst[c].pc = "idle" /\ cst[c].left > 0
    /\ cst' = [cst EXCEPT ![c] =
                  [IdleCaller(cst[c].left - 1) EXCEPT
                      !.pc = "headers", !.op = op,
                      !.n = IF op = "batch_create_records" THEN n ELSE 0]]
    /\ UNCHANGED <<callers, writes, token, sent>>
    /\ UNCHANGED <<uploadLocals, hvars, rvars, avars, tvars, bvars, xvars>>

\* _get_headers() -> _get_tenant_access_token(): the cached token is
\* returned and the operation goes on, or the token request is sent.
GetHeaders(c) ==
    /\ c \in callers
    /\ cst[c].pc = "headers"
    /\ IF TokenCached(token)
       THEN LET o == OwnRequest(c, cst[c], 0)
            IN  /\ cst' = [cst EXCEPT ![c] = o.st]
                /\ sent' = o.sent
       ELSE /\ cst' = [cst EXCEPT ![c].pc = "token_wait"]
            /\ sent' = Append(sent, ApiRequest("token", c, 0, 0))
    /\ UNCHANGED <<callers, writes, token>>
    /\ UNCHANGED <<uploadLocals, hvars, rvars, avars, tvars, bvars, xvars>>

\* _get_tenant_access_token: the answer to the token request, carrying
\* token value tv when its code is 0.
TokenAnswer(c, a, tv) ==
    /\ c \in callers
    /\ cst[c].pc = "token_wait"
    /\ token' = StoredToken(a, tv, token)
    /\ writes' = IF a = "ok" THEN writes + 1 ELSE writes
    /\ LET st == [cst[c] EXCEPT !.ans = a]
       IN  IF AnswerRaises(a)
           THEN /\ cst' = [cst EXCEPT ![c] = Raised(st, AnswerError(a))]
                /\ sent' = sent
           ELSE LET o == OwnRequest(c, st, 0)
                IN  /\ cst' = [cst EXCEPT ![c] = o.st]
                    /\ sent' = o.sent
    /\ UNCHANGED callers
    /\ UNCHANGED <<uploadLocals, hvars, rvars, avars, tvars, bvars, xvars>>

\* What an operation returns for a body with code 0.
\* batch_create_records: the records of the body; others: data["data"].
OpData(st) ==
    IF st.op = "batch_create_records"
    THEN [ok |-> TRUE, data |-> [i \in 1..st.n |-> i]]
    ELSE [ok |-> TRUE, data |-> <<1>>]

\* The answer to the request an operation sent to its own endpoint. For
\* list_tables the body carries the items of the page (table ids ids),
\* has_more and page_token.
OpAnswer(c, a, ids, has_more, pt) ==
    /\ c \in callers
    /\ cst[c].pc = "op_wait"
    /\ LET st   == [cst[c] EXCEPT !.ans = a]
           more == has_more /\ Len(st.pages) + 1 < MaxPages
           page == [items |-> [t \in ids |-> Len(st.pages) + 1],
                    has_more |-> more, page_token |-> pt]
           res  == [ok |-> TRUE, data |-> DictUpdate(st.ret.data, page.items)]
           st2  == [st EXCEPT !.pages = Append(@, page),
                              !.ret = [res EXCEPT !.ok = FALSE]]
       IN  IF AnswerRaises(a)
           THEN /\ cst' = [cst EXCEPT ![c] = Raised(st, AnswerError(a))]
                /\ sent' = sent
           ELSE IF st.op = "list_tables"
           THEN IF page.has_more
                THEN LET o == OwnRequest(c, st2, page.page_token)
                     IN  /\ cst' = [cst EXCEPT ![c] = o.st]
                         /\ sent' = o.sent
                ELSE /\ cst' = [cst EXCEPT ![c] = Ended(st2, "None", res)]
                     /\ sent' = sent
           ELSE /\ cst' = [cst EXCEPT ![c] = Ended(st, "None", OpData(st))]
                /\ sent' = sent
    /\ UNCHANGED <<callers, writes, token>>
    /\ UNCHANGED <<uploadLocals, hvars, rvars, avars, tvars, bvars, xvars>>

ClientNext ==
    \/ \E c \in callers, op \in Ops, n \in 1..MaxRecords : CallOp(c, op, n)
    \/ \E c \in callers : GetHeaders(c)
    \/ \E c \in callers, a \in Answers, tv \in TokenValues :
          TokenAnswer(c, a, tv)
    \/ \E c \in callers, a \in Answers, ids \in SUBSET TableIds,
          has_more \in BOOLEAN, pt \in PageTokens :
          OpAnswer(c, a, ids, has_more, pt)

\* One thread calls the operations one after the other.
OpsInit == callers = {1} /\ ClientInit

OpsSpec == OpsInit /\ [][ClientNext]_vars

\* Two threads call operations of a client that has no token yet.
RaceInit == callers = {1, 2} /\ ClientInit /\ token = NoToken

\* The operations the two threads call: the race is in _get_headers(), which
\* every operation runs first.
RaceOps == {"create_table", "upload_file_finish"}

RaceNext ==
    \/ \E c \in callers, op \in RaceOps : CallOp(c, op, 0)
    \/ \E c \in callers : GetHeaders(c)
    \/ \E c \in callers, a \in Answers, tv \in TokenValues :
          TokenAnswer(c, a, tv)
    \/ \E c \in callers, a \in Answers : OpAnswer(c, a, {}, FALSE, 1)

RaceSpec == RaceInit /\ [][RaceNext]_vars

\* ------------------------------------- a burst of 3q requests, timed
MaxBurstQps     == 1   \* largest qps_limit of a timed burst
MaxBurstWorkers == 1   \* largest max_workers of a timed burst

\* An HttpClient whose limiter window is elapsed0 ticks old (the client was
\* constructed, or its counter last reset, that long ago) is given a batch
\* of 3 * qps_limit requests at time 0.
BurstInit ==
    /\ qps_limit \in 1..MaxBurstQps
    /\ max_workers \in 1..MaxBurstWorkers
    /\ elapsed0 \in 0..TicksPerSec
    /\ limiter = [num_calls |-> 0, elapsed |-> elapsed0]
    /\ urls = BatchOf(3 * qps_limit)
    /\ bmethod \in Methods
    /\ futures = <<>> /\ queue = <<>> /\ results = <<>>
    /\ bpc = "submit"
    /\ thr = [t \in Threads |-> IdleThread]
    /\ recent = [a \in 0..(TicksPerSec - 1) |-> 0]
    /\ winSent = 0 /\ reordered = FALSE /\ delayed = FALSE
    /\ now = 0
    /\ RetryOff /\ UploadOff /\ ApiOff /\ ClientOff /\ BitableOff

\* One tick of the clock passes; the time since the start of the burst is
\* followed up to two seconds.
BurstTick ==
    /\ ClockTick
    /\ now' = Min(now + 1, 2 * TicksPerSec)
    /\ elapsed0' = elapsed0

\* The steps that send the batch: submission, the workers, the limiter,
\* the server and the clock (collecting the results sends nothing).
BurstNext ==
    \/ Submit
    \/ \E w \in Workers : WorkerTake(w)
    \/ \E t \in Threads : Admit(t)
    \/ \E t \in Threads : Wake(t)
    \/ \E t \in Threads : Respond(t, "json")
    \/ BurstTick

BurstSpec == BurstInit /\ [][BurstNext]_vars

\* The requests of the batch sent to the network so far.
TotalSent ==
    Cardinality({i \in 1..Len(futures) : futures[i].state = "done"})
        + InFlight(Threads)

TokenRequests == SentOf("token")

\* C15: for sequential callers, once a token is cached no request is sent
\* to the token endpoint any more and the cached value never changes.
C15_TokenFetchedOnce ==
    [][token # NoToken =>
          /\ token' = token
          /\ TokenRequests' = TokenRequests]_vars

C15_Witness ==
    /\ callers = {1}
    /\ cst[1].pc = "idle" /\ cst[1].left = 0 /\ cst[1].exc = "None"
    /\ writes = 1 /\ token # NoToken
    /\ Len(sent) = 3
    /\ sent[1].kind = "token" /\ sent[2].kind # "token"
    /\ sent[3].kind # "token"

\* C16 (as claimed): with concurrent callers and no token cached, the
\* token field is written exactly once in every interleaving.
C16_TokenWrittenOnce == writes <= 1

\* C16 (amended): each caller writes the token field at most once, after a
\* fetch of its own that succeeded, so the field is written at most once
\* per caller; it is set exactly when it was written.
C16_TokenWrittenPerCaller ==
    /\ writes <= Cardinality(callers)
    /\ token # NoToken <=> writes >= 1

C16_Witness ==
    /\ callers = {1, 2}
    /\ writes = 2
    /\ token = 2
    /\ Len(TokenRequests) = 2

\* C17: when the token request of an operation is answered with code != 0,
\* the operation raises without sending a request to its own endpoint, and
\* the token field is not set.
C17_TokenErrorStopsOperation ==
    [][\A c \in callers :
          (/\ cst[c].pc = "token_wait"
           /\ cst'[c].pc # "token_wait"
           /\ cst'[c].ans = "app") =>
              /\ sent' = sent
              /\ cst'[c].pc = "idle"
              /\ cst'[c].exc # "None"
              /\ cst'[c].ret = NoRet
              /\ token' = token
              /\ Cardinality(callers) = 1 => token' = NoToken]_vars

C17_Witness ==
    /\ callers = {1}
    /\ cst[1].pc = "idle" /\ cst[1].op = "batch_create_records"
    /\ cst[1].ans = "app" /\ cst[1].exc = "ValueError"
    /\ cst[1].reqs = 0
    /\ LastSent.kind = "token"
    /\ token = NoToken

\* C18: an operation whose last answer had code != 0 has raised and
\* returned no data; batch_create_records sends one request for the whole
\* record list.
C18_AppErrorRaises ==
    \A c \in callers :
        LET st == cst[c]
        IN  /\ (st.pc = "idle" /\ st.ans = "app") =>
                  (st.exc # "None" /\ st.ret = NoRet)
            /\ st.op = "batch_create_records" =>
                  /\ st.reqs <= 1
                  /\ st.reqs = 1 =>
                        \E i \in 1..Len(sent) :
                            /\ sent[i] = ApiRequest(st.op, c, st.n, 0)
                            /\ \A j \in (i + 1)..Len(sent) :
                                  sent[j].by # c
                  /\ (st.pc = "idle" /\ st.exc = "None") => st.reqs = 1

C18_Witness ==
    /\ callers = {1}
    /\ cst[1].pc = "idle" /\ cst[1].op = "batch_create_records"
    /\ cst[1].n = 2 /\ cst[1].reqs = 1
    /\ cst[1].ans = "app" /\ cst[1].exc = "ValueError"
    /\ LastSent = ApiRequest("batch_create_records", 1, 2, 0)

\* The list requests of the list_tables call a sequential caller made last.
ListRequests(st) ==
    LET all == SentOf("list_tables")
    IN  SubSeq(all, Len(all) - st.reqs + 1, Len(all))

\* C19 (as claimed): a list_tables call that got no failing answer returns;
\* it sent one list request per page, each after the first with the
\* page_token of the previous page, it stopped at the first page whose
\* has_more is false, and it returns every item of every page, the item of
\* the later page for a repeated table_id.
C19_ListTablesPaginates ==
    \A c \in callers :
        LET st == cst[c]
            np == Len(st.pages)
        IN  (/\ st.op = "list_tables" /\ st.pc = "idle"
             /\ st.ans \in {"none", "ok"}) =>
                /\ st.exc = "None"
                /\ st.reqs = np /\ np >= 1
                /\ \A k \in 1..np : st.pages[k].has_more <=> k < np
                /\ ListRequests(st)[1].page_token = 0
                /\ \A k \in 2..np :
                      ListRequests(st)[k].page_token
                          = st.pages[k - 1].page_token
                /\ st.ret.ok
                /\ DOMAIN st.ret.data =
                      UNION {DOMAIN st.pages[k].items : k \in 1..np}
                /\ \A t \in DOMAIN st.ret.data :
                      /\ t \in DOMAIN st.pages[st.ret.data[t]].items
                      /\ \A k \in (st.ret.data[t] + 1)..np :
                            t \notin DOMAIN st.pages[k].items

\* ------------------------------------------------------------------ Bitable
MaxCalls  == 2        \* method calls made on one Bitable
MaxFields == 2        \* most fields of the table
MaxFiles  == 2        \* most files of one upload_and_create_record call

FieldNames == {"Name", "Age"}

\* The field id the server gave to the i-th field of the table.
FieldId(i) == <<"fld1", "fld2", "fld3", "fld4">>[i]

\* The field lists a table can have (FieldMetadata objects): ids are
\* unique, names are the server's business.
Schemas ==
    UNION {{[i \in 1..n |-> [field_name |-> names[i], field_id |-> FieldId(i)]]
               : names \in [1..n -> FieldNames]} : n \in 0..MaxFields}

\* The record dicts callers pass: field name -> value.
RecordKeys == {{"Name"}, {"Name", "Age"}}
RecordOf(keys) == [k \in keys |-> 1]

\* The exception classes a BitableApiClient operation can raise: the errors
\* of the token fetch and of its own request, the AttributeError of the
\* missing http_get, and for upload_file the filesystem error and the
\* AttributeError of time.sleep in the retry wrapper of upload_file_part.
ClientRaises(op) ==
    {"ValueError", "HTTPError"}
    \cup (IF UsesHttpGet(op) /\ ~HasHttpGet THEN {"AttributeError"} ELSE {})
    \cup (IF op = "upload_file"
          THEN {"FileNotFoundError"}
               \cup (IF TimeSleep = "slept" THEN {} ELSE {"AttributeError"})
          ELSE {})

\* The ways a call of a BitableApiClient operation can end.
ClientOutcomes(op) ==
    ClientRaises(op)
    \cup (IF UsesHttpGet(op) /\ ~HasHttpGet THEN {} ELSE {"returned"})

\* An entry of the client log: the operation, its argument and whether it
\* returned.
ClientCall(op, arg, out) ==
    [op |-> op, arg |-> arg, ok |-> (out = "returned")]

\* {field.field_name: field.field_id for field in self._field_metadata}:
\* a later field replaces an earlier one of the same name.
NameToId(metadata) ==
    [n \in {metadata[i].field_name : i \in DOMAIN metadata} |->
        LET last == CHOOSE i \in DOMAIN metadata :
                        /\ metadata[i].field_name = n
                        /\ \A j \in DOMAIN metadata :
                              metadata[j].field_name = n => j <= i
        IN  metadata[last].field_id]

\* dict.get(key)
DictGet(d, k) == IF k \in DOMAIN d THEN Some(d[k]) ELSE PyNone

\* Bitable.get_table_schema, when client.get_table_fields would end with
\* `out`: the Bitable fields, the client log, the exception and the value.
get_table_schema(fm, ids, log, out) ==
    IF fm.some
    THEN [fm |-> fm, ids |-> ids, log |-> log, exc |-> "None", ret |-> fm]
    ELSE LET log2 == Append(log, ClientCall("get_table_fields", <<>>, out))
         IN  IF out = "returned"
             THEN [fm  |-> Some(schema),
                   ids |-> Some(NameToId(schema)),
                   log |-> log2, exc |-> "None", ret |-> Some(schema)]
             ELSE [fm |-> fm, ids |-> ids, log |-> log2, exc |-> out,
                   ret |-> PyNone]

\* Bitable.get_field_id(field_name)
get_field_id(field_name, out) ==
    LET r == IF field_name_to_id.some
             THEN [fm |-> field_metadata, ids |-> field_name_to_id,
                   log |-> clientLog, exc |-> "None", ret |-> PyNone]
             ELSE get_table_schema(field_metadata, field_name_to_id,
                                   clientLog, out)
    IN  IF r.exc # "None"
        THEN r
        ELSE IF r.ids.some
        THEN [r EXCEPT !.ret = DictGet(r.ids.val, field_name)]
        ELSE [r EXCEPT !.exc = "AttributeError", !.ret = PyNone]

\* Bitable.create_record: the dict handed to batch_create_records is the
\* record_data of the caller (model_dump of a Pydantic model).
RecordDict(record_data) == record_data

\* Bitable.create_record(record_data), when client.batch_create_records
\* would end with `out`: the client log, the exception and the value.
create_record(record_data, log, out) ==
    LET record_dict == RecordDict(record_data)
        log2 == Append(log, ClientCall("batch_create_records",
                                       <<record_dict>>, out))
    IN  IF out = "returned"
        THEN [log |-> log2, exc |-> "None", ret |-> Some(record_dict)]
        ELSE [log |-> log2, exc |-> out, ret |-> PyNone]

\* The call of method m with argument arg is over.
MethodEnds(m, arg, exc, ret) ==
    [bcall EXCEPT !.method = m, !.pc = "idle", !.left = @ - 1, !.arg = arg,
                  !.exc = exc, !.ret = ret, !.base = Len(clientLog)]

\* The variables of the other components.
notBitable == <<hvars, rvars, uvars, avars, cvars, tvars, xvars>>

\* No HttpClient is in use.
HttpOff ==
    /\ qps_limit = 0 /\ max_workers = 0
    /\ limiter = [num_calls |-> 0, elapsed |-> 0]
    /\ urls = <<>> /\ bmethod = "GET"
    /\ futures = <<>> /\ queue = <<>> /\ results = <<>>
    /\ bpc = "off"
    /\ thr = [t \in Threads |-> IdleThread]
    /\ recent = [a \in 0..(TicksPerSec - 1) |-> 0]
    /\ winSent = 0 /\ reordered = FALSE /\ delayed = FALSE

\* Bitable.__init__: nothing is cached.
BitableInit ==
    /\ schema \in Schemas
    /\ field_metadata = PyNone /\ field_name_to_id = PyNone
    /\ clientLog = <<>>
    /\ bcall = [NoCall EXCEPT !.pc = "idle", !.left = MaxCalls]
    /\ HttpOff /\ RetryOff /\ UploadOff /\ ApiOff /\ ClientOff /\ ClockOff
    /\ earlier = <<>> /\ ctors = <<>>

CallGetTableSchema(out) ==
    /\ bcall.pc = "idle" /\ bcall.left > 0
    /\ LET r == get_table_schema(field_metadata, field_name_to_id,
                                 clientLog, out)
       IN  /\ field_metadata' = r.fm
           /\ field_name_to_id' = r.ids
           /\ clientLog' = r.log
           /\ bcall' = MethodEnds("get_table_schema", <<>>, r.exc, r.ret)
    /\ UNCHANGED schema
    /\ UNCHANGED notBitable

CallGetFieldId(field_name, out) ==
    /\ bcall.pc = "idle" /\ bcall.left > 0
    /\ LET r == get_field_id(field_name, out)
       IN  /\ field_metadata' = r.fm
           /\ field_name_to_id' = r.ids
           /\ clientLog' = r.log
           /\ bcall' = MethodEnds("get_field_id", field_name, r.exc, r.ret)
    /\ UNCHANGED schema
    /\ UNCHANGED notBitable

CallCreateRecord(keys, out) ==
    /\ bcall.pc = "idle" /\ bcall.left > 0
    /\ LET r == create_record(RecordOf(keys), clientLog, out)
       IN  /\ clientLog' = r.log
           /\ bcall' = MethodEnds("create_record", RecordOf(keys), r.exc,
                                  r.ret)
    /\ UNCHANGED <<schema, field_metadata, field_name_to_id>>
    /\ UNCHANGED notBitable

\* Bitable.upload_and_create_record(record_data, attachment_files) is
\* called: record_dict = dict(record_data); attachment_files maps one field
\* to nfiles paths (nfiles = 0: attachment_files is None).
UploadAndCreateRecord(keys, nfiles) ==
    /\ bcall.pc = "idle" /\ bcall.left > 0
    /\ bcall' = [bcall EXCEPT !.method = "upload_and_create_record",
                              !.pc = "uploading", !.left = @ - 1,
                              !.arg = RecordOf(keys), !.exc = "None",
                              !.ret = PyNone, !.base = Len(clientLog),
                              !.nfiles = nfiles, !.files = nfiles,
                              !.attachments = <<>>,
                              !.record_dict = RecordOf(keys)]
    /\ UNCHANGED <<schema, field_metadata, field_name_to_id, clientLog>>
    /\ UNCHANGED notBitable

\* Bitable.upload_attachment: the AttachmentFile of the uploaded file, or
\* None when client.upload_file raised (`except Exception: return None`).
upload_attachment(out) == IF out = "returned" THEN Some(1) ELSE PyNone

\* Faulty variant: `if attachment is None: continue`
AfterUploadSkipsNone(attachment) ==
    IF attachment.some THEN "append" ELSE "skip"

\* upload_and_create_record: `attachments.append(attachment.model_dump())`;
\* None has no model_dump.
AfterUpload(attachment) ==
    IF attachment.some THEN "append" ELSE "AttributeError"

\* upload_and_create_record, one file of the loop: upload_attachment, when
\* client.upload_file would end with `out`.
UploadOne(out) ==
    /\ bcall.pc = "uploading" /\ bcall.files > 0
    /\ clientLog' = Append(clientLog, ClientCall("upload_file", <<>>, out))
    /\ LET attachment == upload_attachment(out)
           after      == AfterUpload(attachment)
       IN  bcall' =
             CASE after = "append" ->
                    [bcall EXCEPT !.files = @ - 1,
                                  !.attachments = Append(@, attachment.val)]
               [] after = "skip" -> [bcall EXCEPT !.files = @ - 1]
               [] OTHER -> [bcall EXCEPT !.pc = "idle", !.exc = after]
    /\ UNCHANGED <<schema, field_metadata, field_name_to_id>>
    /\ UNCHANGED notBitable

\* upload_and_create_record after the loop: record_dict[field_name] =
\* attachments, then create_record(record_dict).
CreateAfterUploads(out) ==
    /\ bcall.pc = "uploading" /\ bcall.files = 0
    /\ LET record_dict ==
             IF bcall.nfiles > 0
             THEN DictUpdate(bcall.record_dict,
                             [k \in {"Photo"} |-> bcall.attachments])
             ELSE bcall.record_dict
           r == create_record(record_dict, clientLog, out)
       IN  /\ clientLog' = r.log
           /\ bcall' = [bcall EXCEPT !.pc = "idle", !.exc = r.exc,
                                     !.ret = r.ret,
                                     !.record_dict = record_dict]
    /\ UNCHANGED <<schema, field_metadata, field_name_to_id>>
    /\ UNCHANGED notBitable

BitableNext ==
    \/ \E out \in ClientOutcomes("get_table_fields") :
          CallGetTableSchema(out)
    \/ \E n \in FieldNames, out \in ClientOutcomes("get_table_fields") :
          CallGetFieldId(n, out)
    \/ \E keys \in RecordKeys,
          out \in ClientOutcomes("batch_create_records") :
          CallCreateRecord(keys, out)
    \/ \E keys \in RecordKeys, nfiles \in 0..MaxFiles :
          UploadAndCreateRecord(keys, nfiles)
    \/ \E out \in ClientOutcomes("upload_file") : UploadOne(out)
    \/ \E out \in ClientOutcomes("batch_create_records") :
          CreateAfterUploads(out)

BitableSpec == BitableInit /\ [][BitableNext]_vars

\* The calls of operation op in the client log.
LoggedCalls(op) == SelectSeq(clientLog, LAMBDA c : c.op = op)

\* C22 (as claimed): the record create_record passes to
\* batch_create_records has, for every key of the input that is a field
\* name of the table, the field id of that field as its key instead.
C22_RecordKeysAreFieldIds ==
    (bcall.method = "create_record" /\ bcall.pc = "idle") =>
        LET rec == clientLog[Len(clientLog)].arg[1]
            ids == NameToId(schema)
        IN  \A k \in DOMAIN bcall.arg :
                k \in DOMAIN ids =>
                    (ids[k] \in DOMAIN rec /\ k \notin DOMAIN rec)

\* C23 (as claimed): once a get_table_fields call has returned no other is
\* made and the cached list is the table's; a get_field_id call that met no
\* server error returns the field id the schema gives the name, or None
\* for a name the schema does not have.
C23_SchemaCachedAndLookedUp ==
    /\ \A i, j \in 1..Len(LoggedCalls("get_table_fields")) :
          i < j => ~LoggedCalls("get_table_fields")[i].ok
    /\ field_metadata.some => field_metadata.val = schema
    /\ (/\ bcall.method = "get_field_id" /\ bcall.pc = "idle"
        /\ bcall.exc \notin {"ValueError", "HTTPError"}) =>
          /\ bcall.exc = "None"
          /\ bcall.ret = DictGet(NameToId(schema), bcall.arg)

\* The client calls made by the Bitable method called last.
CallsOfMethod == SubSeq(clientLog, bcall.base + 1, Len(clientLog))

\* C29: in upload_and_create_record, once the upload of an attachment file
\* has failed the call has raised, returns nothing, uploads no further file
\* and batch_create_records is not called.
C29_FailedUploadCreatesNoRecord ==
    LET calls == CallsOfMethod
    IN  (/\ bcall.method = "upload_and_create_record"
         /\ \E i \in 1..Len(calls) :
               calls[i].op = "upload_file" /\ ~calls[i].ok) =>
            /\ bcall.pc = "idle"
            /\ bcall.exc # "None"
            /\ bcall.ret = PyNone
            /\ \A i \in 1..Len(calls) :
                  /\ calls[i].op # "batch_create_records"
                  /\ ~calls[i].ok => i = Len(calls)

C29_Witness ==
    /\ bcall.method = "upload_and_create_record" /\ bcall.pc = "idle"
    /\ bcall.nfiles = 2 /\ Len(bcall.attachments) = 1
    /\ Len(CallsOfMethod) = 2
    /\ CallsOfMethod[1].op = "upload_file" /\ CallsOfMethod[1].ok
    /\ CallsOfMethod[2].op = "upload_file" /\ ~CallsOfMethod[2].ok
    /\ bcall.exc = "AttributeError"
    /\ LoggedCalls("batch_create_records") = <<>>

\* The attribute an operation sends its own request through.
RequestPath(op) == IF UsesHttpGet(op) THEN "http_get" ELSE "limited_post"

\* C25 (as claimed): a request that is on its way was sent through
\* limited_get / limited_post, and an operation that met no failing answer
\* (get_table_fields and list_tables included) ends with its result.
C25_EveryRequestLimited ==
    \A c \in callers :
        LET st == cst[c]
        IN  /\ st.pc = "op_wait" =>
                  (\/ RequestPath(st.op) \in {"limited_get", "limited_post"}
                   \/ HasHttpGet)
            /\ (st.pc = "idle" /\ st.op # "none"
                    /\ st.ans \in {"none", "ok"}) =>
                  (st.exc = "None" /\ st.ret.ok)

\* ------------------------------------ HttpClient(...) called repeatedly
MaxCtors == 3         \* HttpClient(...) calls made in the process

DefaultTimeout == 10

\* The arguments HttpClient(...) is called with.
CtorArgs ==
    [timeout : {DefaultTimeout, Timeout30}, qps_limit : {Qps5, Qps100},
     max_workers : {Workers5, Workers100}]

\* The process has started: the singleton's `instances` dict is empty.
SingletonInit ==
    /\ instances = 0 /\ objs = <<>>
    /\ client_qps5 = 0 /\ client_qps100 = 0
    /\ apc = "calls"
    /\ via = [a \in Attrs |-> 0]
    /\ asleep = [a \in Attrs |-> 0]
    /\ earlier = <<>> /\ ctors = <<>>
    /\ schema = <<>>
    /\ field_metadata = PyNone /\ field_name_to_id = PyNone
    /\ clientLog = <<>> /\ bcall = NoCall
    /\ HttpOff /\ RetryOff /\ UploadOff /\ ClientOff /\ ClockOff

\* HttpClient(timeout=..., qps_limit=..., max_workers=...) is called.
Construct(a) ==
    /\ apc = "calls"
    /\ Len(ctors) < MaxCtors
    /\ LET g == get_instance(a.timeout, a.qps_limit, a.max_workers)
       IN  /\ objs' = g.objs
           /\ instances' = g.instances
           /\ ctors' = Append(ctors, [args |-> a, ref |-> g.ref])
    /\ UNCHANGED <<client_qps5, client_qps100, apc, via, asleep, earlier>>
    /\ UNCHANGED <<hvars, rvars, uvars, cvars, tvars, bvars>>

SingletonNext == \E a \in CtorArgs : Construct(a)

SingletonSpec == SingletonInit /\ [][SingletonNext]_vars

\* C26: after any sequence of HttpClient(...) calls at most one HttpClient
\* object exists, every call has returned that object, and its timeout,
\* qps_limit and max_workers are the arguments of the first call.
C26_OneInstanceFirstArgs ==
    /\ Len(objs) <= 1
    /\ ctors # <<>> =>
          /\ Len(objs) = 1
          /\ \A i \in 1..Len(ctors) : ctors[i].ref = 1
          /\ objs[1].timeout = ctors[1].args.timeout
          /\ objs[1].qps_limit = ctors[1].args.qps_limit
          /\ objs[1].max_workers = ctors[1].args.max_workers

C26_Witness ==
    /\ Len(ctors) = 2
    /\ ctors[1].args = [timeout |-> Timeout30, qps_limit |-> Qps5,
                        max_workers |-> Workers5]
    /\ ctors[2].args = [timeout |-> Timeout30, qps_limit |-> Qps100,
                        max_workers |-> Workers100]
    /\ ctors[2].ref = ctors[1].ref
    /\ objs[1].qps_limit = Qps5 /\ objs[1].max_workers = Workers5

\* ------------------------------- limited_get and limited_post together
\* The limited_post calls admitted so far when the batch is a
\* concurrent_get: only the direct caller posts.
PostsAdmitted == IF thr[Direct].pc \in {"send", "done"} THEN 1 ELSE 0

\* C27 (as claimed): limited_post has a counter of its own: a limited_post
\* call waits only when qps_limit limited_post calls were admitted.
C27_OwnCounterPerMethod ==
    thr[Direct].pc = "sleep" => PostsAdmitted >= qps_limit

\* C27 (amended): limited_get and limited_post count in the one counter of
\* the HttpClient: a call of either is made to wait exactly when qps_limit
\* calls, GET and POST together, were admitted since the counter's last
\* reset; it then sleeps for the rest of that window and repeats the
\* admission check; an admitted call is within the window's qps_limit.
C27_SharedCounter ==
    [][\A t \in Threads :
          /\ (thr[t].pc = "check" /\ thr'[t].pc = "sleep") =>
                /\ winSent = qps_limit
                /\ winSent' = winSent
                /\ limiter.elapsed < TicksPerSec
                /\ thr'[t].sleepLeft = TicksPerSec - limiter.elapsed
          /\ (thr[t].pc = "check" /\ thr'[t].pc = "send") =>
                /\ winSent' <= qps_limit
                /\ (limiter.elapsed < TicksPerSec => winSent < qps_limit)
          /\ (thr[t].pc = "sleep" /\ thr'[t].pc # "sleep") =>
                (thr[t].sleepLeft = 0 /\ thr'[t].pc = "check")]_vars

C27_Witness ==
    /\ qps_limit = 2 /\ bmethod = "GET"
    /\ thr[Direct].pc = "sleep" /\ thr[Direct].m = "POST"
    /\ thr[Direct].sleepLeft = 1
    /\ winSent = 2
    /\ \E t \in Workers : thr[t].pc = "send" /\ thr[t].m = "GET"

\* ------------------------------------- upload_file and the prepare answer
\* The length of chunk number k (from 1) of a file of len bytes cut into
\* blocks of bs bytes: bs, what is left of the file, or nothing.
ChunkLen(len, bs, k) == Max(0, Min(bs, len - (k - 1) * bs))

\* C28: an upload_file that returns has sent exactly block_num upload_part
\* requests and has passed the same block_num to upload_finish, whatever
\* the file size: the parts past the end of the file are empty, and when
\* block_num blocks do not hold the file fewer bytes than the file has
\* were sent.
C28_BlockNumUnchecked ==
    upc = "done" =>
        /\ Len(PartsSent) = prep.block_num
        /\ FinishesSent[1].block_num = prep.block_num
        /\ \A k \in 1..Len(PartsSent) :
              /\ PartsSent[k].seq = k - 1
              /\ PartsSent[k].size =
                    ChunkLen(Len(file_data), prep.block_size, k)
              /\ (k - 1) * prep.block_size >= Len(file_data) =>
                    PartsSent[k].size = 0
        /\ prep.block_num * prep.block_size < Len(file_data) =>
              SumSizes(PartsSent) < Len(file_data)
        /\ prep.block_num = 0 => PartsSent = <<>>

C28_Witness ==
    /\ upc = "done" /\ file_token # 0
    /\ Len(file_data) = 2 /\ prep.block_size = 2 /\ prep.block_num = 3
    /\ Len(PartsSent) = 3
    /\ PartsSent[1].size = 2
    /\ PartsSent[2].size = 0 /\ PartsSent[3].size = 0
    /\ FinishesSent[1].block_num = 3

\* ------------------------------------- the retry wrapper comes to an end
\* A call of the wrapper whose thread keeps running and whose wrapped
\* function ends every time it is called.
RetryLiveSpec == RetrySpec /\ WF_vars(RetryNext)

WrapperEnded == rpc \in {"returned", "raised"}

\* How a call of the wrapper has ended, when it has.
WrapperEndsProperly ==
    /\ attempts <= Max(r_max, 0)
    /\ WrapperEnded =>
          /\ r_max >= 1 =>
                /\ attempts >= 1
                /\ rpc = "returned" => (rret \in {1, 2} /\ rexc = NoExc)
                /\ rpc = "raised" => rexc # NoExc
          /\ (/\ rpc = "raised"
              /\ lastExc.cls \notin r_excs /\ "Exception" \notin r_excs) =>
                (rexc = lastExc /\ attempts = 1)
          /\ r_max <= 0 <=> (rpc = "returned" /\ attempts = 0 /\ rret = 0)

\* C30: every call of the wrapper ends; for max_retries >= 1 it has called
\* the function at least once and returns the value of a successful
\* attempt or raises; an exception outside the configured set is raised
\* as it is after a single attempt; exactly for max_retries <= 0 the
\* wrapper returns None without calling the function.
C30_WrapperTerminates == []WrapperEndsProperly /\ <>WrapperEnded

C30_Witness ==
    /\ r_max = 3 /\ r_excs = {"ValueError"}
    /\ rpc = "raised" /\ attempts = 1
    /\ lastExc.cls = "OSError" /\ rexc = lastExc

====
